---- MODULE Spec2Model ----
(***************************************************************************)
(* JSON-RPC 2.0 message model and codec (evgenxpp/json-rpc).               *)
(*                                                                         *)
(* The codec is a set of pure functions: a call is modelled as a state     *)
(* machine with one pending call (call, arg) that an action applies,       *)
(* storing the outcome in res.  Init draws the call and its input.         *)
(*                                                                         *)
(* JSON documents are the trees of serde_json::Value: null, bool, number   *)
(* (PosInt(u64) / NegInt(i64) / Float), string, array, object.  An object  *)
(* is a sequence of <<key, value>> entries in the order the MapAccess      *)
(* yields them.  A serde error message is a sequence of strings, the       *)
(* pieces the source formats into the message text.                        *)
(*                                                                         *)
(* Integers are scaled: a machine integer has IntBits bits instead of 64,  *)
(* so I64_MAX stands for i64::MAX and U64_MAX for u64::MAX.                *)
(***************************************************************************)
EXTENDS Integers, Sequences, FiniteSets, TLC

VARIABLES
    pc,    \* "call": a value waits to be passed / encoded; "wire": a document waits to be decoded; "done"
    call,  \* the function or type the call is about
    arg,   \* Some(the value the caller passed) or None when the call starts from a document
    wire,  \* Some(the JSON document between encoder and decoder) or None
    res    \* Some(what the call returned) or None

vars == <<pc, call, arg, wire, res>>

(***************************************************************************)
(* Bounds                                                                  *)
(***************************************************************************)
IntBits == 17

MaxFields == 3

MaxBatch == 3

I64_MAX == 2 ^ (IntBits - 1) - 1

I64_MIN == 0 - 2 ^ (IntBits - 1)

U64_MAX == 2 ^ IntBits - 1

(***************************************************************************)
(* Option and Result                                                       *)
(***************************************************************************)
None == [some |-> FALSE]

Some(x) == [some |-> TRUE, v |-> x]

Ok(x) == [ok |-> TRUE, val |-> x]

Err(e) == [ok |-> FALSE, err |-> e]

(***************************************************************************)
(* serde_json::Value                                                       *)
(***************************************************************************)
JNull == [t |-> "null"]

JBool(b) == [t |-> "bool", b |-> b]

JInt(n) == [t |-> "int", n |-> n]

JFloat(f) == [t |-> "float", f |-> f]

JStr(s) == [t |-> "str", s |-> s]

JArr(items) == [t |-> "arr", items |-> items]

JObj(entries) == [t |-> "obj", entries |-> entries]

(***************************************************************************)
(* serde::de::Error constructors and the Unexpected names                  *)
(***************************************************************************)
Unexpected(value) ==
    CASE value.t = "null" -> "null"
      [] value.t = "bool" -> "boolean"
      [] value.t = "int" -> "integer"
      [] value.t = "float" -> "floating point"
      [] value.t = "str" -> "string"
      [] value.t = "arr" -> "sequence"
      [] value.t = "obj" -> "map"

invalid_type(value, expected) == <<"invalid type", Unexpected(value), "expected", expected>>

invalid_value(value, expected) == <<"invalid value", Unexpected(value), "expected", expected>>

custom(msg) == <<msg>>

missing_field(field) == <<"missing field", field>>

unknown_field(field, expected) == <<"unknown field", field, "expected one of">> \o expected

(***************************************************************************)
(* schema.rs                                                               *)
(***************************************************************************)
VERSION == "2.0"

id_EXPECTED_SCHEMA == "anyOf string | integer minimum 0 maximum 18446744073709551615"

error_EXPECTED_SCHEMA == "Error object"

request_EXPECTED_SCHEMA == "Request object"

response_EXPECTED_SCHEMA == "Response object"

params_EXPECTED_SCHEMA == "anyOf array | object"

message_EXPECTED_SCHEMA == "array:Request|array:Response|object:Request|object:Response"

error_FIELD_NAMES == <<"code", "message", "data">>

request_FIELD_NAMES == <<"jsonrpc", "id", "method", "params">>

response_FIELD_NAMES == <<"jsonrpc", "id", "result", "error">>

(***************************************************************************)
(* err.rs: ErrorCode, ErrorData, Error                                     *)
(***************************************************************************)
CODE_PARSE_ERROR == -32700

CODE_INVALID_REQUEST == -32600

CODE_METHOD_NOT_FOUND == -32601

CODE_INVALID_PARAMS == -32602

CODE_INTERNAL_ERROR == -32603

CODE_SERVER_ERROR_MIN == -32099

CODE_SERVER_ERROR_MAX == -32000

ERR_INVALID_CODE == "invalid error code: must be predefined or in range -32099 to -32000"

ParseError == [t |-> "ParseError"]

InvalidRequest == [t |-> "InvalidRequest"]

MethodNotFound == [t |-> "MethodNotFound"]

InvalidParams == [t |-> "InvalidParams"]

InternalError == [t |-> "InternalError"]

ServerError(n) == [t |-> "ServerError", n |-> n]

ErrorData_new(value) == [value |-> value]

Error_new(code, message) == [code |-> code, message |-> message, data |-> None]

\* a variant with the reading "Invalid request" of the second message
Error_new_default_lowercase(code) ==
    LET message == CASE code.t = "ParseError" -> "Parse error"
                     [] code.t = "InvalidRequest" -> "Invalid request"
                     [] code.t = "MethodNotFound" -> "Method not found"
                     [] code.t = "InvalidParams" -> "Invalid params"
                     [] code.t = "InternalError" -> "Internal error"
                     [] code.t = "ServerError" -> "Server error"
    IN  [code |-> code, message |-> message, data |-> None]

Error_new_default(code) ==
    LET message == CASE code.t = "ParseError" -> "Parse error"
                     [] code.t = "InvalidRequest" -> "Invalid Request"
                     [] code.t = "MethodNotFound" -> "Method not found"
                     [] code.t = "InvalidParams" -> "Invalid params"
                     [] code.t = "InternalError" -> "Internal error"
                     [] code.t = "ServerError" -> "Server error"
    IN  [code |-> code, message |-> message, data |-> None]

\* a variant that keeps the data already attached
Error_with_data_keep(self, data) ==
    IF self.data.some THEN self ELSE [self EXCEPT !.data = Some(data)]

Error_with_data(self, data) == [self EXCEPT !.data = Some(data)]

\* a variant of create whose server-error range excludes its lower end
ErrorCode_create_open_range(code) ==
    CASE code = CODE_PARSE_ERROR -> Ok(ParseError)
      [] code = CODE_INVALID_REQUEST -> Ok(InvalidRequest)
      [] code = CODE_METHOD_NOT_FOUND -> Ok(MethodNotFound)
      [] code = CODE_INVALID_PARAMS -> Ok(InvalidParams)
      [] code = CODE_INTERNAL_ERROR -> Ok(InternalError)
      [] code > CODE_SERVER_ERROR_MIN /\ code <= CODE_SERVER_ERROR_MAX -> Ok(ServerError(code))
      [] OTHER -> Err(Error_with_data(Error_new_default(InvalidRequest),
                                      ErrorData_new(JStr(ERR_INVALID_CODE))))

ErrorCode_create(code) ==
    CASE code = CODE_PARSE_ERROR -> Ok(ParseError)
      [] code = CODE_INVALID_REQUEST -> Ok(InvalidRequest)
      [] code = CODE_METHOD_NOT_FOUND -> Ok(MethodNotFound)
      [] code = CODE_INVALID_PARAMS -> Ok(InvalidParams)
      [] code = CODE_INTERNAL_ERROR -> Ok(InternalError)
      [] code >= CODE_SERVER_ERROR_MIN /\ code <= CODE_SERVER_ERROR_MAX -> Ok(ServerError(code))
      [] OTHER -> Err(Error_with_data(Error_new_default(InvalidRequest),
                                      ErrorData_new(JStr(ERR_INVALID_CODE))))

ErrorCode_as_i64(self) ==
    CASE self.t = "ParseError" -> CODE_PARSE_ERROR
      [] self.t = "InvalidRequest" -> CODE_INVALID_REQUEST
      [] self.t = "MethodNotFound" -> CODE_METHOD_NOT_FOUND
      [] self.t = "InvalidParams" -> CODE_INVALID_PARAMS
      [] self.t = "InternalError" -> CODE_INTERNAL_ERROR
      [] self.t = "ServerError" -> self.n

(***************************************************************************)
(* Id (ser.rs names the integer variant U64, msg.rs I64, de.rs Num)        *)
(***************************************************************************)
Id_Null == [t |-> "Null"]

Id_Num(n) == [t |-> "Num", n |-> n]

Id_Str(s) == [t |-> "Str", s |-> s]

MSG_NUMBER_TOO_LARGE == "number too large: expected a signed 64-bit integer"

\* `v as i64` for v: u64
u64_as_i64(v) == IF v > I64_MAX THEN v - 2 ^ IntBits ELSE v

\* a variant that refuses an integer the decoder would not take
Id_serialize_checked(self) ==
    CASE self.t = "Null" -> JNull
      [] self.t = "Num" /\ self.n <= I64_MAX -> JInt(self.n)
      [] self.t = "Num" /\ self.n > I64_MAX -> Err(custom(MSG_NUMBER_TOO_LARGE))
      [] self.t = "Str" -> JStr(self.s)

Id_serialize(self) ==
    CASE self.t = "Null" -> JNull
      [] self.t = "Num" -> JInt(self.n)
      [] self.t = "Str" -> JStr(self.s)

IdVisitor_visit_string(v) == Ok(Id_Str(v))

IdVisitor_visit_i64(v) == Ok(Id_Num(v))

\* a variant of visit_u64 that casts without the range check
IdVisitor_visit_u64_unchecked(v) == Ok(Id_Num(u64_as_i64(v)))

IdVisitor_visit_u64(v) ==
    IF v <= I64_MAX THEN Ok(Id_Num(u64_as_i64(v))) ELSE Err(custom(MSG_NUMBER_TOO_LARGE))

\* deserialize_any on a Value: PosInt goes to visit_u64, NegInt to visit_i64;
\* a visit_* the visitor does not define is serde's default, an invalid-type error.
Id_deserialize(value) ==
    CASE value.t = "str" -> IdVisitor_visit_string(value.s)
      [] value.t = "int" /\ value.n < 0 -> IdVisitor_visit_i64(value.n)
      [] value.t = "int" /\ value.n >= 0 -> IdVisitor_visit_u64(value.n)
      [] OTHER -> Err(invalid_type(value, id_EXPECTED_SCHEMA))

\* deserialize_any on a JSON document: an integer literal that fits u64 or i64
\* is handed on as that integer, any other one as the nearest f64.
Number_from_literal(n) ==
    IF I64_MIN <= n /\ n <= U64_MAX THEN JInt(n) ELSE JFloat("out of integer range")

(***************************************************************************)
(* Parameters (de.rs: RequestParams)                                       *)
(***************************************************************************)
Parameters_Array(items) == [t |-> "Array", items |-> items]

Parameters_Object(entries) == [t |-> "Object", entries |-> entries]

Parameters_serialize(self) ==
    CASE self.t = "Array" -> JArr(self.items)
      [] self.t = "Object" -> JObj(self.entries)

RequestParams_deserialize(value) ==
    CASE value.t = "arr" -> Ok(Parameters_Array(value.items))
      [] value.t = "obj" -> Ok(Parameters_Object(value.entries))
      [] OTHER -> Err(invalid_type(value, params_EXPECTED_SCHEMA))

(***************************************************************************)
(* de.rs helpers                                                           *)
(***************************************************************************)
make_field_error(field, reason) == <<"field", field, "contains an">> \o reason

map_field_error(field, error) ==
    IF error.data.some
    THEN make_field_error(field, custom(error.data.v.value.s))
    ELSE make_field_error(field, custom(error.message))

unwrap_or_missing_error(field, value) ==
    IF value.some THEN Ok(value.v) ELSE Err(missing_field(field))

deserialize_i64(field, value) ==
    CASE value.t = "int" /\ value.n <= I64_MAX -> Ok(value.n)
      [] value.t = "int" /\ value.n > I64_MAX ->
            Err(make_field_error(field, invalid_value(value, "i64")))
      [] OTHER -> Err(make_field_error(field, invalid_type(value, "i64")))

deserialize_string(field, value) ==
    IF value.t = "str" THEN Ok(value.s)
    ELSE Err(make_field_error(field, invalid_type(value, "a string")))

\* a variant that takes any version string
ensure_valid_jsonrpc_version_any(field, jsonrpc) == Ok(TRUE)

ensure_valid_jsonrpc_version(field, jsonrpc) ==
    IF jsonrpc = VERSION THEN Ok(TRUE)
    ELSE Err(<<"invalid value for field", field, "expected version", VERSION, "got", jsonrpc>>)

\* `.map(Some)` on a Result
map_Some(r) == IF r.ok THEN Ok(Some(r.val)) ELSE r

\* `acc.field = r?`: assign on Ok, return the error otherwise
Assign(acc, field, r) == IF r.ok THEN Ok([acc EXCEPT ![field] = r.val]) ELSE r

\* `r?; then`: the error of r, or else the later result
Try(r, then) == IF r.ok THEN then ELSE r

(***************************************************************************)
(* Error: encode (ser.rs) and decode (de.rs ErrorVisitor)                  *)
(***************************************************************************)
ErrorCode_serialize(self) == JInt(ErrorCode_as_i64(self))

ErrorData_serialize(self) == self.value

\* a variant whose data is a string, as in error.rs
ErrorData_deserialize_string(value) ==
    IF value.t = "str" THEN Ok(ErrorData_new(value))
    ELSE Err(invalid_type(value, "a string"))

ErrorData_deserialize(value) == Ok(ErrorData_new(value))

Error_serialize(self) ==
    JObj(<<<<"code", ErrorCode_serialize(self.code)>>, <<"message", JStr(self.message)>>>>
         \o (IF self.data.some THEN <<<<"data", ErrorData_serialize(self.data.v)>>>> ELSE <<>>))

ErrorVisitor_created(created) ==
    IF created.ok THEN created ELSE Err(map_field_error("code", created.err))

\* a variant that takes any integer for a server error code
ErrorVisitor_code_unvalidated(code) ==
    IF code.ok THEN Ok(ServerError(code.val)) ELSE code

ErrorVisitor_code(code) ==
    IF code.ok THEN ErrorVisitor_created(ErrorCode_create(code.val)) ELSE code

ErrorVisitor_visit_field_code(value) == ErrorVisitor_code(deserialize_i64("code", value))

ErrorVisitor_visit_field_message(value) == deserialize_string("message", value)

ErrorVisitor_data(data) == IF data.ok THEN data ELSE Err(make_field_error("data", data.err))

ErrorVisitor_visit_field_data(value) == ErrorVisitor_data(ErrorData_deserialize(value))

ErrorVisitor_visit_unknown(field) == unknown_field(field, error_FIELD_NAMES)

\* one turn of the `while let Some((key, value)) = map.next_entry()` loop;
\* acc holds code, message, data
ErrorVisitor_entry(acc, key, value) ==
    CASE key = "code" -> Assign(acc, "code", map_Some(ErrorVisitor_visit_field_code(value)))
      [] key = "message" -> Assign(acc, "message", map_Some(ErrorVisitor_visit_field_message(value)))
      [] key = "data" -> Assign(acc, "data", map_Some(ErrorVisitor_visit_field_data(value)))
      [] OTHER -> Err(ErrorVisitor_visit_unknown(key))

RECURSIVE ErrorVisitor_entries(_, _)
RECURSIVE ErrorVisitor_rest(_, _)
ErrorVisitor_entries(map, acc) ==
    IF map = <<>> THEN Ok(acc)
    ELSE ErrorVisitor_rest(ErrorVisitor_entry(acc, Head(map)[1], Head(map)[2]), Tail(map))

ErrorVisitor_rest(r, map) == IF r.ok THEN ErrorVisitor_entries(map, r.val) ELSE r

\* a variant that takes a null `data` for an absent one
ErrorVisitor_build_null_is_absent(code, message, data) ==
    IF data.some /\ data.v.value # JNull
    THEN Error_with_data(Error_new(code, message), data.v)
    ELSE Error_new(code, message)

\* what follows the loop
ErrorVisitor_build(code, message, data) ==
    IF data.some
    THEN Error_with_data(Error_new(code, message), data.v)
    ELSE Error_new(code, message)

\* a variant that looks for the message before the code
ErrorVisitor_finish_message_first(acc) ==
    IF ~acc.ok THEN acc
    ELSE Try(unwrap_or_missing_error("message", acc.val.message),
         Try(unwrap_or_missing_error("code", acc.val.code),
             Ok(ErrorVisitor_build(acc.val.code.v, acc.val.message.v, acc.val.data))))

ErrorVisitor_finish(acc) ==
    IF ~acc.ok THEN acc
    ELSE Try(unwrap_or_missing_error("code", acc.val.code),
         Try(unwrap_or_missing_error("message", acc.val.message),
             Ok(ErrorVisitor_build(acc.val.code.v, acc.val.message.v, acc.val.data))))

ErrorVisitor_visit_map(map) ==
    ErrorVisitor_finish(
        ErrorVisitor_entries(map, [code |-> None, message |-> None, data |-> None]))

\* deserialize_map: only an object reaches visit_map
Error_deserialize(value) ==
    IF value.t = "obj" THEN ErrorVisitor_visit_map(value.entries)
    ELSE Err(invalid_type(value, error_EXPECTED_SCHEMA))

(***************************************************************************)
(* Notification, Request, Response values (msg.rs, response.rs)            *)
(***************************************************************************)
Notification_new(method, params) ==
    [kind |-> "Notification", method |-> method, params |-> params]

Request_new(id, method, params) ==
    [kind |-> "Request", id |-> id, method |-> method, params |-> params]

\* the constructors the decoder calls; the revision of msg.rs that defines them is not in src/
Request_new_request(id, method, params) == Request_new(id, method, params)

Request_new_notification(method, params) == Notification_new(method, params)

\* msg.rs: the identifier of a Response is an Id
Response_new(id, result) == [id |-> id, result |-> result]

\* response.rs: the identifier of a decoded Response is an Option<Id>
Response_new_success(id, result) == [id |-> Some(id), result |-> Ok(result)]

Response_new_error(id, error) == [id |-> id, result |-> Err(error)]

(***************************************************************************)
(* ser.rs: Notification, Request, Response                                 *)
(***************************************************************************)
\* a variant that writes an absent params as null
Notification_serialize_null_params(self) ==
    JObj(<<<<"jsonrpc", JStr(VERSION)>>, <<"method", JStr(self.method)>>,
           <<"params", IF self.params.some THEN Parameters_serialize(self.params.v) ELSE JNull>>>>)

Notification_serialize(self) ==
    JObj(<<<<"jsonrpc", JStr(VERSION)>>, <<"method", JStr(self.method)>>>>
         \o (IF self.params.some
             THEN <<<<"params", Parameters_serialize(self.params.v)>>>>
             ELSE <<>>))

Request_serialize(self) ==
    JObj(<<<<"jsonrpc", JStr(VERSION)>>, <<"id", Id_serialize(self.id)>>,
           <<"method", JStr(self.method)>>>>
         \o (IF self.params.some
             THEN <<<<"params", Parameters_serialize(self.params.v)>>>>
             ELSE <<>>))

Response_serialize(self) ==
    JObj(<<<<"jsonrpc", JStr(VERSION)>>, <<"id", Id_serialize(self.id)>>,
           IF self.result.ok
           THEN <<"result", self.result.val>>
           ELSE <<"error", Error_serialize(self.result.err)>>>>)

\* ser.rs: a Message is encoded as the value it wraps
Message_serialize(self) ==
    CASE self.t = "Notification" -> Notification_serialize(self.value)
      [] self.t = "Request" -> Request_serialize(self.value)
      [] self.t = "Response" -> Response_serialize(self.value)

(***************************************************************************)
(* de.rs: RequestVisitor                                                   *)
(***************************************************************************)
RequestVisitor_id(id) ==
    IF id.ok THEN Ok(Some(id.val)) ELSE Err(make_field_error("id", id.err))

\* a variant that keeps a null id as the identifier Null
RequestVisitor_visit_field_id_keep_null(value) ==
    IF value.t = "null" THEN Ok(Some(Id_Null)) ELSE RequestVisitor_id(Id_deserialize(value))

RequestVisitor_visit_field_id(value) ==
    IF value.t = "null" THEN Ok(None) ELSE RequestVisitor_id(Id_deserialize(value))

RequestVisitor_visit_field_method(value) == deserialize_string("method", value)

RequestVisitor_params(params) ==
    IF params.ok THEN Ok(Some(params.val)) ELSE Err(make_field_error("params", params.err))

\* a variant that hands a null params to the Parameters decoder
RequestVisitor_visit_field_params_strict(value) ==
    RequestVisitor_params(RequestParams_deserialize(value))

RequestVisitor_visit_field_params(value) ==
    IF value.t = "null" THEN Ok(None)
    ELSE RequestVisitor_params(RequestParams_deserialize(value))

RequestVisitor_visit_unknown(field) == unknown_field(field, request_FIELD_NAMES)

\* a variant of the loop body that skips a field it does not know
RequestVisitor_entry_skip_unknown(acc, key, value) ==
    CASE key = "jsonrpc" -> Assign(acc, "jsonrpc", map_Some(deserialize_string("jsonrpc", value)))
      [] key = "id" -> Assign(acc, "id", RequestVisitor_visit_field_id(value))
      [] key = "method" -> Assign(acc, "method", map_Some(RequestVisitor_visit_field_method(value)))
      [] key = "params" -> Assign(acc, "params", RequestVisitor_visit_field_params(value))
      [] OTHER -> Ok(acc)

\* one turn of the entry loop; acc holds jsonrpc, id, method, params
RequestVisitor_entry(acc, key, value) ==
    CASE key = "jsonrpc" -> Assign(acc, "jsonrpc", map_Some(deserialize_string("jsonrpc", value)))
      [] key = "id" -> Assign(acc, "id", RequestVisitor_visit_field_id(value))
      [] key = "method" -> Assign(acc, "method", map_Some(RequestVisitor_visit_field_method(value)))
      [] key = "params" -> Assign(acc, "params", RequestVisitor_visit_field_params(value))
      [] OTHER -> Err(RequestVisitor_visit_unknown(key))

RECURSIVE RequestVisitor_entries(_, _)
RECURSIVE RequestVisitor_rest(_, _)
RequestVisitor_entries(map, acc) ==
    IF map = <<>> THEN Ok(acc)
    ELSE RequestVisitor_rest(RequestVisitor_entry(acc, Head(map)[1], Head(map)[2]), Tail(map))

RequestVisitor_rest(r, map) == IF r.ok THEN RequestVisitor_entries(map, r.val) ELSE r

\* the `match id` that ends visit_map
RequestVisitor_build(id, method, params) ==
    IF id.some
    THEN Request_new_request(id.v, method, params)
    ELSE Request_new_notification(method, params)

\* the version check, on the unwrapped jsonrpc
version_checked(field, jsonrpc) ==
    IF jsonrpc.ok THEN ensure_valid_jsonrpc_version(field, jsonrpc.val) ELSE jsonrpc

RequestVisitor_finish(acc) ==
    IF ~acc.ok THEN acc
    ELSE Try(version_checked("jsonrpc", unwrap_or_missing_error("jsonrpc", acc.val.jsonrpc)),
         Try(unwrap_or_missing_error("method", acc.val.method),
             Ok(RequestVisitor_build(acc.val.id, acc.val.method.v, acc.val.params))))

RequestVisitor_visit_map(map) ==
    RequestVisitor_finish(
        RequestVisitor_entries(map, [jsonrpc |-> None, id |-> None,
                                     method |-> None, params |-> None]))

\* deserialize_any: RequestVisitor defines visit_map only
Request_deserialize(value) ==
    IF value.t = "obj" THEN RequestVisitor_visit_map(value.entries)
    ELSE Err(invalid_type(value, request_EXPECTED_SCHEMA))

(***************************************************************************)
(* de.rs: ResponseVisitor                                                  *)
(***************************************************************************)
\* the messages of visit_map, without the backquotes around the field names
MSG_BOTH_PRESENT == "result and error cannot both be present in the same response"

MSG_ID_REQUIRED == "id is required in a successful response with result"

MSG_NO_PAYLOAD == "response must contain either result or error"

ResponseVisitor_id(id) ==
    IF id.ok THEN Ok(Some(id.val)) ELSE Err(make_field_error("id", id.err))

ResponseVisitor_visit_field_id(value) ==
    IF value.t = "null" THEN Ok(None) ELSE ResponseVisitor_id(Id_deserialize(value))

ResponseVisitor_error(error) ==
    IF error.ok THEN error ELSE Err(make_field_error("error", error.err))

ResponseVisitor_visit_field_error(value) == ResponseVisitor_error(Error_deserialize(value))

ResponseVisitor_visit_unknown(field) == unknown_field(field, response_FIELD_NAMES)

\* a variant of the loop body that skips a field it does not know
ResponseVisitor_entry_skip_unknown(acc, key, value) ==
    CASE key = "jsonrpc" -> Assign(acc, "jsonrpc", map_Some(deserialize_string("jsonrpc", value)))
      [] key = "id" -> Assign(acc, "id", ResponseVisitor_visit_field_id(value))
      [] key = "result" -> Assign(acc, "result", Ok(Some(value)))
      [] key = "error" -> Assign(acc, "error", map_Some(ResponseVisitor_visit_field_error(value)))
      [] OTHER -> Ok(acc)

\* one turn of the entry loop; acc holds jsonrpc, id, result, error
ResponseVisitor_entry(acc, key, value) ==
    CASE key = "jsonrpc" -> Assign(acc, "jsonrpc", map_Some(deserialize_string("jsonrpc", value)))
      [] key = "id" -> Assign(acc, "id", ResponseVisitor_visit_field_id(value))
      [] key = "result" -> Assign(acc, "result", Ok(Some(value)))
      [] key = "error" -> Assign(acc, "error", map_Some(ResponseVisitor_visit_field_error(value)))
      [] OTHER -> Err(ResponseVisitor_visit_unknown(key))

RECURSIVE ResponseVisitor_entries(_, _)
RECURSIVE ResponseVisitor_rest(_, _)
ResponseVisitor_entries(map, acc) ==
    IF map = <<>> THEN Ok(acc)
    ELSE ResponseVisitor_rest(ResponseVisitor_entry(acc, Head(map)[1], Head(map)[2]), Tail(map))

ResponseVisitor_rest(r, map) == IF r.ok THEN ResponseVisitor_entries(map, r.val) ELSE r

\* a variant in which an error takes precedence over a result
ResponseVisitor_payload_error_first(id, result, error) ==
    CASE error.some -> Ok(Response_new_error(id, error.v))
      [] result.some /\ id.some -> Ok(Response_new_success(id.v, result.v))
      [] result.some -> Err(custom(MSG_ID_REQUIRED))
      [] OTHER -> Err(custom(MSG_NO_PAYLOAD))

\* a variant that takes a result without an id
ResponseVisitor_payload_id_optional(id, result, error) ==
    CASE result.some /\ error.some -> Err(custom(MSG_BOTH_PRESENT))
      [] result.some /\ ~error.some -> Ok([id |-> id, result |-> Ok(result.v)])
      [] ~result.some /\ error.some -> Ok(Response_new_error(id, error.v))
      [] OTHER -> Err(custom(MSG_NO_PAYLOAD))

\* the `match (result, error)` that ends visit_map
ResponseVisitor_payload(id, result, error) ==
    CASE result.some /\ error.some -> Err(custom(MSG_BOTH_PRESENT))
      [] result.some /\ ~error.some ->
            IF id.some THEN Ok(Response_new_success(id.v, result.v))
            ELSE Err(custom(MSG_ID_REQUIRED))
      [] ~result.some /\ error.some -> Ok(Response_new_error(id, error.v))
      [] OTHER -> Err(custom(MSG_NO_PAYLOAD))

ResponseVisitor_finish(acc) ==
    IF ~acc.ok THEN acc
    ELSE Try(version_checked("jsonrpc", unwrap_or_missing_error("jsonrpc", acc.val.jsonrpc)),
             ResponseVisitor_payload(acc.val.id, acc.val.result, acc.val.error))

ResponseVisitor_visit_map(map) ==
    ResponseVisitor_finish(
        ResponseVisitor_entries(map, [jsonrpc |-> None, id |-> None,
                                      result |-> None, error |-> None]))

\* deserialize_any: ResponseVisitor defines visit_map only
Response_deserialize(value) ==
    IF value.t = "obj" THEN ResponseVisitor_visit_map(value.entries)
    ELSE Err(invalid_type(value, response_EXPECTED_SCHEMA))

(***************************************************************************)
(* de.rs: Message and the batches                                          *)
(***************************************************************************)
MSG_NEITHER == "object is neither a Request nor a Response"

MSG_INVALID_BATCH_ELEMENT == "invalid batch element type"

MSG_EMPTY_ARRAY == "empty array"

\* `request.into()`: a decoded request or notification as a Message
Message_from_Request(request) == [t |-> request.kind, value |-> request]

\* `response.into()`
Message_from_Response(response) == [t |-> "Response", value |-> response]

\* the batches the decoder builds; the revision of msg.rs that defines them is not in src/
BatchRequest_new(requests) == [t |-> "BatchRequest", items |-> requests]

BatchResponse_new(responses) == [t |-> "BatchResponse", items |-> responses]

\* a variant that reports the error of the last attempt
MessageVisitor_object_last_error(request, response) ==
    CASE request.ok -> Ok(Message_from_Request(request.val))
      [] response.ok -> Ok(Message_from_Response(response.val))
      [] OTHER -> response

\* the two attempts of visit_map, on their outcomes
MessageVisitor_object(request, response) ==
    CASE request.ok -> Ok(Message_from_Request(request.val))
      [] response.ok -> Ok(Message_from_Response(response.val))
      [] OTHER -> Err(custom(MSG_NEITHER))

MessageVisitor_visit_map(raw_value) ==
    MessageVisitor_object(Request_deserialize(raw_value), Response_deserialize(raw_value))

\* `while let Some(request) = seq.next_element::<Request>()?`
RECURSIVE MessageVisitor_requests(_, _)
RECURSIVE MessageVisitor_requests_rest(_, _, _)
MessageVisitor_requests(seq, requests) ==
    IF seq = <<>> THEN Ok(BatchRequest_new(requests))
    ELSE MessageVisitor_requests_rest(Request_deserialize(Head(seq)), Tail(seq), requests)

\* a variant that leaves out an element that does not decode
MessageVisitor_requests_rest_skip(request, seq, requests) ==
    IF request.ok THEN MessageVisitor_requests(seq, Append(requests, request.val))
    ELSE MessageVisitor_requests(seq, requests)

MessageVisitor_requests_rest(request, seq, requests) ==
    IF request.ok THEN MessageVisitor_requests(seq, Append(requests, request.val))
    ELSE request

\* `while let Some(response) = seq.next_element::<Response>()?`
RECURSIVE MessageVisitor_responses(_, _)
RECURSIVE MessageVisitor_responses_rest(_, _, _)
MessageVisitor_responses(seq, responses) ==
    IF seq = <<>> THEN Ok(BatchResponse_new(responses))
    ELSE MessageVisitor_responses_rest(Response_deserialize(Head(seq)), Tail(seq), responses)

MessageVisitor_responses_rest(response, seq, responses) ==
    IF response.ok THEN MessageVisitor_responses(seq, Append(responses, response.val))
    ELSE response

\* a variant that decodes every later element by ordered trial and keeps what decodes
MessageVisitor_batch_lenient(request, response, seq) ==
    CASE request.ok -> MessageVisitor_requests(SelectSeq(seq, LAMBDA e : Request_deserialize(e).ok),
                                               <<request.val>>)
      [] response.ok -> MessageVisitor_responses(SelectSeq(seq, LAMBDA e : Response_deserialize(e).ok),
                                                 <<response.val>>)
      [] OTHER -> Err(custom(MSG_INVALID_BATCH_ELEMENT))

\* a variant that uses the first element for the kind only
MessageVisitor_batch_drop_first(request, response, seq) ==
    CASE request.ok -> MessageVisitor_requests(seq, <<>>)
      [] response.ok -> MessageVisitor_responses(seq, <<>>)
      [] OTHER -> Err(custom(MSG_INVALID_BATCH_ELEMENT))

\* the first element decides the kind of the batch
MessageVisitor_batch(request, response, seq) ==
    CASE request.ok -> MessageVisitor_requests(seq, <<request.val>>)
      [] response.ok -> MessageVisitor_responses(seq, <<response.val>>)
      [] OTHER -> Err(custom(MSG_INVALID_BATCH_ELEMENT))

\* a variant that takes an empty array for a batch of no requests
MessageVisitor_visit_seq_empty_batch(seq) ==
    IF seq = <<>> THEN Ok(BatchRequest_new(<<>>))
    ELSE MessageVisitor_batch(Request_deserialize(Head(seq)), Response_deserialize(Head(seq)),
                              Tail(seq))

MessageVisitor_visit_seq(seq) ==
    IF seq = <<>> THEN Err(custom(MSG_EMPTY_ARRAY))
    ELSE MessageVisitor_batch(Request_deserialize(Head(seq)), Response_deserialize(Head(seq)),
                              Tail(seq))

\* deserialize_any: MessageVisitor defines visit_seq and visit_map
Message_deserialize(value) ==
    CASE value.t = "obj" -> MessageVisitor_visit_map(value)
      [] value.t = "arr" -> MessageVisitor_visit_seq(value.items)
      [] OTHER -> Err(invalid_type(value, message_EXPECTED_SCHEMA))

\* the expected-shape texts of the batch visitors; schema.rs in src/ has no
\* batch_request / batch_response module
batch_request_EXPECTED_SCHEMA == "array:Request"

batch_response_EXPECTED_SCHEMA == "array:Response"

\* BatchRequestVisitor::visit_seq: `while let Some(request) = seq.next_element::<Request>()?`
RECURSIVE BatchRequestVisitor_visit_seq(_, _)
RECURSIVE BatchRequestVisitor_next(_, _, _)
BatchRequestVisitor_visit_seq(seq, requests) ==
    IF seq = <<>> THEN Ok(BatchRequest_new(requests))
    ELSE BatchRequestVisitor_next(Request_deserialize(Head(seq)), Tail(seq), requests)

BatchRequestVisitor_next(request, seq, requests) ==
    IF request.ok THEN BatchRequestVisitor_visit_seq(seq, Append(requests, request.val))
    ELSE request

\* deserialize_seq: only an array reaches visit_seq
BatchRequest_deserialize(value) ==
    IF value.t = "arr" THEN BatchRequestVisitor_visit_seq(value.items, <<>>)
    ELSE Err(invalid_type(value, batch_request_EXPECTED_SCHEMA))

RECURSIVE BatchResponseVisitor_visit_seq(_, _)
RECURSIVE BatchResponseVisitor_next(_, _, _)
BatchResponseVisitor_visit_seq(seq, responses) ==
    IF seq = <<>> THEN Ok(BatchResponse_new(responses))
    ELSE BatchResponseVisitor_next(Response_deserialize(Head(seq)), Tail(seq), responses)

BatchResponseVisitor_next(response, seq, responses) ==
    IF response.ok THEN BatchResponseVisitor_visit_seq(seq, Append(responses, response.val))
    ELSE response

BatchResponse_deserialize(value) ==
    IF value.t = "arr" THEN BatchResponseVisitor_visit_seq(value.items, <<>>)
    ELSE Err(invalid_type(value, batch_response_EXPECTED_SCHEMA))

(***************************************************************************)
(* Inputs                                                                  *)
(***************************************************************************)
Seqs(S, n) == UNION {[1..k -> S] : k \in 0..n}

Perms(n) == {p \in [1..n -> 1..n] : \A i, j \in 1..n : p[i] = p[j] => i = j}

Permute(s, p) == [i \in 1..Len(s) |-> s[p[i]]]

CodeInputs ==
    ((CODE_PARSE_ERROR - 2)..(CODE_SERVER_ERROR_MAX + 2))
        \cup {I64_MIN, -1, 0, 1, 0 - CODE_PARSE_ERROR, I64_MAX}

\* every ErrorCode value: the enum is public, ServerError(n) takes any i64
ServerErrorPayloads ==
    {CODE_SERVER_ERROR_MIN, CODE_SERVER_ERROR_MIN + 1, CODE_SERVER_ERROR_MAX,
     CODE_SERVER_ERROR_MIN - 1, CODE_SERVER_ERROR_MAX + 1, CODE_PARSE_ERROR, 0}

ErrorCodes ==
    {ParseError, InvalidRequest, MethodNotFound, InvalidParams, InternalError}
        \cup {ServerError(n) : n \in ServerErrorPayloads}

\* the codes the validator accepts
ValidErrorCodes ==
    {c \in ErrorCodes : c.t = "ServerError" =>
        c.n >= CODE_SERVER_ERROR_MIN /\ c.n <= CODE_SERVER_ERROR_MAX}

JScalars ==
    {JNull, JBool(TRUE), JInt(1), JFloat("1.5"), JStr("s")}

JValues ==
    JScalars \cup {JArr(<<>>), JArr(<<JInt(1), JNull>>), JObj(<<>>), JObj(<<<<"k", JInt(1)>>>>)}

IdInts ==
    {I64_MIN, -2, -1, 0, 1, 2, I64_MAX - 1, I64_MAX, I64_MAX + 1, I64_MAX + 2,
     U64_MAX - 1, U64_MAX}

\* the Id values of the encoder: Null, U64(n) for a u64 n, Str(s)
Ids ==
    {Id_Null, Id_Str(""), Id_Str("a")} \cup {Id_Num(n) : n \in {m \in IdInts : m >= 0}}

\* integer literals of a document, around the ends of u64 and i64
IdLiterals ==
    {I64_MIN - 2, I64_MIN - 1, I64_MIN, -1, 0, I64_MAX, I64_MAX + 1,
     U64_MAX, U64_MAX + 1, U64_MAX + 2}

IdWires ==
    {JNull, JBool(TRUE), JBool(FALSE), JFloat("1.5"), JStr(""), JStr("a"),
     JArr(<<>>), JArr(<<JInt(1)>>), JObj(<<>>), JObj(<<<<"k", JInt(1)>>>>)}
        \cup {JInt(n) : n \in IdInts}

Methods == {"", "m"}

Messages == {"", "Parse error"}

ParamsOptions ==
    {None, Some(Parameters_Array(<<>>)), Some(Parameters_Array(<<JInt(1), JStr("s")>>)),
     Some(Parameters_Object(<<>>)), Some(Parameters_Object(<<<<"k", JBool(TRUE)>>>>))}

Errors ==
    {[code |-> c, message |-> m, data |-> d] :
        c \in ValidErrorCodes, m \in Messages,
        d \in {None} \cup {Some(ErrorData_new(v)) : v \in JValues}}

Notifications == {Notification_new(m, p) : m \in Methods, p \in ParamsOptions}

Requests == {Request_new(i, m, p) : i \in Ids, m \in Methods, p \in ParamsOptions}

Responses ==
    {Response_new(i, Ok(v)) : i \in Ids, v \in JValues}
        \cup {Response_new(i, Err(e)) : i \in Ids, e \in Errors}

\* the Message values: every notification and request, the responses of two ids
MessageValues ==
    {Message_from_Request(n) : n \in Notifications}
        \cup {Message_from_Request(r) : r \in Requests}
        \cup {Message_from_Response(r) : r \in {x \in Responses : x.id \in {Id_Null, Id_Num(1)}}}

\* documents given to the decoders entry by entry, duplicate keys included
ErrorEntries ==
    {<<"code", v>> : v \in {JInt(CODE_PARSE_ERROR), JInt(CODE_SERVER_ERROR_MAX), JInt(0), JBool(TRUE),
                            JInt(I64_MAX + 1), JFloat("1.5")}}
        \cup {<<"message", v>> : v \in {JStr("m"), JNull}}
        \cup {<<"data", v>> : v \in {JNull, JBool(TRUE), JStr("s")}}
        \cup {<<"bogus", JInt(1)>>, <<"id", JInt(1)>>}

RequestEntries ==
    {<<"jsonrpc", v>> : v \in {JStr("2.0"), JStr("1.0"), JInt(2)}}
        \cup {<<"id", v>> : v \in {JNull, JInt(1), JStr("a"), JBool(TRUE)}}
        \cup {<<"method", v>> : v \in {JStr("m"), JInt(1)}}
        \cup {<<"params", v>> : v \in {JNull, JArr(<<JInt(1)>>), JObj(<<>>), JInt(1)}}
        \cup {<<"bogus", JInt(1)>>, <<"result", JInt(1)>>,
              <<"error", Error_serialize(Error_new_default(InternalError))>>}

ResponseEntries ==
    {<<"jsonrpc", v>> : v \in {JStr("2.0"), JStr("1.0"), JInt(2)}}
        \cup {<<"id", v>> : v \in {JNull, JInt(1), JStr("a"), JBool(TRUE)}}
        \cup {<<"result", v>> : v \in {JNull, JInt(1)}}
        \cup {<<"error", v>> : v \in {Error_serialize(Error_new_default(InternalError)),
                                     JNull,
                                     JObj(<<<<"code", JInt(0)>>, <<"bogus", JInt(1)>>>>)}}
        \cup {<<"bogus", JInt(1)>>, <<"method", JStr("m")>>}

ErrorWires == {JObj(m) : m \in Seqs(ErrorEntries, MaxFields)} \cup {JArr(<<>>), JNull}

RequestWires == {JObj(m) : m \in Seqs(RequestEntries, MaxFields)} \cup {JArr(<<>>), JNull}

ResponseWires == {JObj(m) : m \in Seqs(ResponseEntries, MaxFields)} \cup {JArr(<<>>), JNull}

\* the elements of the batches: two requests, a notification, two responses, an
\* object with an unknown field, one with a wrong version, and a number
BatchElements ==
    {JObj(<<<<"jsonrpc", JStr("2.0")>>, <<"id", JInt(1)>>, <<"method", JStr("a")>>>>),
     JObj(<<<<"jsonrpc", JStr("2.0")>>, <<"id", JStr("a")>>, <<"method", JStr("b")>>>>),
     JObj(<<<<"jsonrpc", JStr("2.0")>>, <<"method", JStr("n")>>>>),
     JObj(<<<<"jsonrpc", JStr("2.0")>>, <<"id", JInt(2)>>, <<"result", JInt(1)>>>>),
     JObj(<<<<"jsonrpc", JStr("2.0")>>, <<"id", JNull>>,
            <<"error", Error_serialize(Error_new_default(InternalError))>>>>),
     JObj(<<<<"jsonrpc", JStr("2.0")>>, <<"method", JStr("m")>>, <<"bogus", JInt(1)>>>>),
     JObj(<<<<"jsonrpc", JStr("1.0")>>, <<"id", JInt(2)>>, <<"result", JInt(1)>>>>),
     JInt(1)}

MessageWires ==
    RequestWires \cup ResponseWires
        \cup {JArr(items) : items \in Seqs(BatchElements, MaxBatch)}
        \cup {JStr("m"), JInt(1)}

BatchWires == {JArr(items) : items \in Seqs(BatchElements, MaxBatch)} \cup {JNull, JObj(<<>>)}

(***************************************************************************)
(* The calls                                                               *)
(***************************************************************************)
Init ==
    /\ res = None
    /\ \/ /\ pc = "call"
          /\ wire = None
          /\ \/ call = "ErrorCode::create" /\ arg \in {Some(c) : c \in CodeInputs}
             \/ call = "ErrorCode::as_i64" /\ arg \in {Some(k) : k \in ErrorCodes}
             \/ call = "Id" /\ arg \in {Some(i) : i \in Ids}
             \/ call = "Id::from_str" /\ arg \in {Some(n) : n \in IdLiterals}
             \/ call = "Error" /\ arg \in {Some(e) : e \in Errors}
             \/ call = "Error::new_default" /\ arg \in {Some(k) : k \in ErrorCodes}
             \/ call = "Error::with_data" /\ arg \in {Some(e) : e \in Errors}
             \/ call = "Notification" /\ arg \in {Some(n) : n \in Notifications}
             \/ call = "Request" /\ arg \in {Some(r) : r \in Requests}
             \/ call = "Response" /\ arg \in {Some(r) : r \in Responses}
             \/ call = "Message" /\ arg \in {Some(m) : m \in MessageValues}
       \/ /\ pc = "wire"
          /\ arg = None
          /\ \/ call = "Id" /\ wire \in {Some(w) : w \in IdWires}
             \/ call = "Error" /\ wire \in {Some(w) : w \in ErrorWires}
             \/ call = "Request" /\ wire \in {Some(w) : w \in RequestWires}
             \/ call = "Response" /\ wire \in {Some(w) : w \in ResponseWires}
             \/ call = "Message" /\ wire \in {Some(w) : w \in MessageWires}
             \/ call \in {"BatchRequest", "BatchResponse"} /\ wire \in {Some(w) : w \in BatchWires}

Create ==
    /\ pc = "call" /\ call = "ErrorCode::create"
    /\ res' = Some(ErrorCode_create(arg.v))
    /\ pc' = "done"
    /\ UNCHANGED <<call, arg, wire>>

AsI64 ==
    /\ pc = "call" /\ call = "ErrorCode::as_i64"
    /\ res' = Some(ErrorCode_as_i64(arg.v))
    /\ pc' = "done"
    /\ UNCHANGED <<call, arg, wire>>

NewDefault ==
    /\ pc = "call" /\ call = "Error::new_default"
    /\ res' = Some(Error_new_default(arg.v))
    /\ pc' = "done"
    /\ UNCHANGED <<call, arg, wire>>

\* with_data consumes the error and returns it, so the calls chain: the first
\* applies to arg, a later one to the error returned before; wire keeps the
\* value last passed
WithData ==
    /\ pc \in {"call", "done"} /\ call = "Error::with_data"
    /\ \E value \in JValues :
          /\ res' = Some(Error_with_data(IF pc = "call" THEN arg.v ELSE res.v,
                                         ErrorData_new(value)))
          /\ wire' = Some(value)
    /\ pc' = "done"
    /\ UNCHANGED <<call, arg>>

\* The encoder writes the fields in its declared order; the order in which the
\* decoder's MapAccess yields them is the JSON library's (serde_json's Map sorts
\* or keeps insertion order by feature flag), so any order may arrive.
Put(object) ==
    /\ \E p \in Perms(Len(object.entries)) : wire' = Some(JObj(Permute(object.entries, p)))
    /\ pc' = "wire"
    /\ UNCHANGED <<call, arg, res>>

SerializeId ==
    /\ pc = "call" /\ call = "Id"
    /\ wire' = Some(Id_serialize(arg.v))
    /\ pc' = "wire"
    /\ UNCHANGED <<call, arg, res>>

SerializeError ==
    /\ pc = "call" /\ call = "Error"
    /\ Put(Error_serialize(arg.v))

SerializeNotification ==
    /\ pc = "call" /\ call = "Notification"
    /\ Put(Notification_serialize(arg.v))

SerializeRequest ==
    /\ pc = "call" /\ call = "Request"
    /\ Put(Request_serialize(arg.v))

SerializeResponse ==
    /\ pc = "call" /\ call = "Response"
    /\ Put(Response_serialize(arg.v))

SerializeMessage ==
    /\ pc = "call" /\ call = "Message"
    /\ Put(Message_serialize(arg.v))

ParseId ==
    /\ pc = "call" /\ call = "Id::from_str"
    /\ wire' = Some(Number_from_literal(arg.v))
    /\ pc' = "wire"
    /\ UNCHANGED <<call, arg, res>>

DeserializeId ==
    /\ pc = "wire" /\ call \in {"Id", "Id::from_str"}
    /\ res' = Some(Id_deserialize(wire.v))
    /\ pc' = "done"
    /\ UNCHANGED <<call, arg, wire>>

DeserializeError ==
    /\ pc = "wire" /\ call = "Error"
    /\ res' = Some(Error_deserialize(wire.v))
    /\ pc' = "done"
    /\ UNCHANGED <<call, arg, wire>>

\* Request::deserialize decodes requests and notifications
DeserializeRequest ==
    /\ pc = "wire" /\ call \in {"Request", "Notification"}
    /\ res' = Some(Request_deserialize(wire.v))
    /\ pc' = "done"
    /\ UNCHANGED <<call, arg, wire>>

DeserializeResponse ==
    /\ pc = "wire" /\ call = "Response"
    /\ res' = Some(Response_deserialize(wire.v))
    /\ pc' = "done"
    /\ UNCHANGED <<call, arg, wire>>

DeserializeMessage ==
    /\ pc = "wire" /\ call = "Message"
    /\ res' = Some(Message_deserialize(wire.v))
    /\ pc' = "done"
    /\ UNCHANGED <<call, arg, wire>>

DeserializeBatchRequest ==
    /\ pc = "wire" /\ call = "BatchRequest"
    /\ res' = Some(BatchRequest_deserialize(wire.v))
    /\ pc' = "done"
    /\ UNCHANGED <<call, arg, wire>>

DeserializeBatchResponse ==
    /\ pc = "wire" /\ call = "BatchResponse"
    /\ res' = Some(BatchResponse_deserialize(wire.v))
    /\ pc' = "done"
    /\ UNCHANGED <<call, arg, wire>>

Next ==
    \/ Create
    \/ AsI64
    \/ NewDefault
    \/ WithData
    \/ SerializeId
    \/ SerializeError
    \/ SerializeNotification
    \/ SerializeRequest
    \/ SerializeResponse
    \/ SerializeMessage
    \/ ParseId
    \/ DeserializeId
    \/ DeserializeError
    \/ DeserializeRequest
    \/ DeserializeResponse
    \/ DeserializeMessage
    \/ DeserializeBatchRequest
    \/ DeserializeBatchResponse

Spec == Init /\ [][Next]_vars

(***************************************************************************)
(* Claims                                                                  *)
(***************************************************************************)
Done(c) == pc = "done" /\ call = c

\* the call started from a value that was encoded first
RoundTrip(c) == Done(c) /\ arg.some

\* the reserved codes, as the protocol lists them
ReservedCode(c) ==
    \/ c \in {-32700, -32600, -32601, -32602, -32603}
    \/ c >= -32099 /\ c <= -32000

\* C1: ErrorCode::create(c) succeeds exactly when c is one of the five protocol
\* codes or lies in [-32099, -32000]; otherwise it fails with an Error whose code
\* is InvalidRequest and which carries a data payload.
C1_CreateAcceptsReservedCodes ==
    Done("ErrorCode::create") =>
        /\ res.v.ok <=> ReservedCode(arg.v)
        /\ ~res.v.ok => res.v.err.code = InvalidRequest /\ res.v.err.data.some

C1_Witness ==
    /\ Done("ErrorCode::create") /\ arg.v = -32100
    /\ ~res.v.ok /\ res.v.err.code = InvalidRequest

\* C2: as_i64 is the total inverse of create: create(c).as_i64() = c for every
\* accepted c, and create(k.as_i64()) succeeds with k for every ErrorCode value k,
\* any ServerError(n) included.
C2_AsI64TotalInverse ==
    /\ (Done("ErrorCode::create") /\ res.v.ok) => ErrorCode_as_i64(res.v.val) = arg.v
    /\ Done("ErrorCode::as_i64") => ErrorCode_create(res.v) = Ok(arg.v)

\* C3: every Request (any identifier, the null one included) and every
\* Notification decodes from its encoded form to an equal value of the same kind.
C3_RequestRoundTrip ==
    (RoundTrip("Request") \/ RoundTrip("Notification")) => res.v = Ok(arg.v)

\* the identifier of a decoded Response (an Option<Id>) against the original Id
SameId(id, decoded) == decoded = Some(id) \/ (id = Id_Null /\ decoded = None)

\* C4: every Response (success or failure, any identifier, the null one included)
\* decodes from its encoded form, with the same id and the same outcome.
C4_ResponseRoundTrip ==
    RoundTrip("Response") =>
        /\ res.v.ok
        /\ SameId(arg.v.id, res.v.val.id)
        /\ res.v.val.result = arg.v.result

C6_IdRoundTrip ==
    RoundTrip("Id") => res.v = Ok(arg.v)

TypeMismatch(r) == ~r.ok /\ r.err[1] = "invalid type"

\* C7: the Id decoder accepts three shapes: null gives the Null variant, a string
\* s gives Str(s), an in-range integer gives the integer variant; boolean, float,
\* array and object fail with a type mismatch.
C7_IdShapes ==
    Done("Id") =>
        CASE wire.v.t = "null" -> res.v = Ok(Id_Null)
          [] wire.v.t = "str" -> res.v = Ok(Id_Str(wire.v.s))
          [] wire.v.t = "int" /\ wire.v.n >= 0 /\ wire.v.n <= I64_MAX -> res.v = Ok(Id_Num(wire.v.n))
          [] wire.v.t \in {"bool", "float", "arr", "obj"} -> TypeMismatch(res.v)
          [] OTHER -> TRUE

C9_NegativeIdRejected ==
    (Done("Id") /\ wire.v.t = "int") =>
        IF wire.v.n >= 0 /\ wire.v.n <= 2 ^ (IntBits - 1) - 1
        THEN res.v.ok /\ res.v.val = Id_Num(wire.v.n)
        ELSE res.v = Err(<<"number too large: expected a signed 64-bit integer">>)

\* the field-name table of each object shape
FieldTable(c) ==
    CASE c = "Error" -> {"code", "message", "data"}
      [] c \in {"Request", "Notification"} -> {"jsonrpc", "id", "method", "params"}
      [] c = "Response" -> {"jsonrpc", "id", "result", "error"}

\* the positions of the entries whose key is not in the table
UnknownAt(c, map) == {i \in 1..Len(map) : map[i][1] \notin FieldTable(c)}

First(S) == CHOOSE i \in S : \A j \in S : i <= j

\* a document handed to the decoder of c that is an object with an unknown field
DecodedWithUnknown(c) ==
    Done(c) /\ wire.v.t = "obj" /\ UnknownAt(c, wire.v.entries) # {}

ObjectCalls == {"Error", "Request", "Notification", "Response"}

At(key, map) == {i \in 1..Len(map) : map[i][1] = key}

Last(S) == CHOOSE i \in S : \A j \in S : j <= i

\* the document hands the same known field twice to the decoder of c
DuplicateKnown(c, map) ==
    \E i, j \in 1..Len(map) : i < j /\ map[i][1] = map[j][1] /\ map[i][1] \in FieldTable(c)

\* C11: an object in which a known field name appears twice is never decoded:
\* the decode fails (with the duplicate-field error), and no later occurrence
\* replaces an earlier one.
C11_DuplicateFieldRejected ==
    \A c \in ObjectCalls :
        (Done(c) /\ wire.v.t = "obj" /\ DuplicateKnown(c, wire.v.entries)) => ~res.v.ok

\* C12: a Request, Notification or Response is decoded only from an object
\* whose jsonrpc field is present and is the string "2.0"; another string, a
\* non-string or no jsonrpc field makes the decode fail.  (The field's value is
\* that of its last occurrence; repeated fields are the subject of C11.)
C12_VersionRequired ==
    \A c \in {"Request", "Notification", "Response"} :
        (Done(c) /\ res.v.ok) =>
            /\ wire.v.t = "obj"
            /\ At("jsonrpc", wire.v.entries) # {}
            /\ wire.v.entries[Last(At("jsonrpc", wire.v.entries))][2] = JStr("2.0")

C12_Witness ==
    /\ Done("Request")
    /\ wire.v = JObj(<<<<"jsonrpc", JStr("1.0")>>, <<"method", JStr("m")>>>>)
    /\ ~res.v.ok /\ res.v.err[1] = "invalid value for field"

Has(key, map) == At(key, map) # {}

\* the value of a field of the document: that of its last occurrence
Field(key, map) == map[Last(At(key, map))][2]

\* an identifier value an id field may hold
WellFormedId(v) ==
    \/ v.t \in {"null", "str"}
    \/ v.t = "int" /\ v.n >= 0 /\ v.n <= 2 ^ (IntBits - 1) - 1

\* an error object with an integer reserved code, a string message, any data
WellFormedError(v) ==
    /\ v.t = "obj"
    /\ \A i \in 1..Len(v.entries) :
          LET key == v.entries[i][1]
              val == v.entries[i][2]
          IN  \/ key = "code" /\ val.t = "int" /\ ReservedCode(val.n)
              \/ key = "message" /\ val.t = "str"
              \/ key = "data"
    /\ Has("code", v.entries) /\ Has("message", v.entries)

\* a response document whose fields, taken one by one, are all acceptable:
\* version "2.0", known names, a well-formed id and error where present
ResponseFieldsValid(map) ==
    /\ Has("jsonrpc", map)
    /\ \A i \in 1..Len(map) :
          \/ map[i][1] = "jsonrpc" /\ map[i][2] = JStr("2.0")
          \/ map[i][1] = "id" /\ WellFormedId(map[i][2])
          \/ map[i][1] = "result"
          \/ map[i][1] = "error" /\ WellFormedError(map[i][2])

ResponseDoc == Done("Response") /\ wire.v.t = "obj"

NoId(map) == ~Has("id", map) \/ Field("id", map) = JNull

RequestDoc == (Done("Request") \/ Done("Notification")) /\ wire.v.t = "obj"

\* a request document whose fields other than params are all acceptable:
\* known names, version "2.0", a well-formed id, a string method
RequestFieldsValid(map) ==
    /\ Has("jsonrpc", map) /\ Has("method", map)
    /\ \A i \in 1..Len(map) :
          \/ map[i][1] = "jsonrpc" /\ map[i][2] = JStr("2.0")
          \/ map[i][1] = "id" /\ WellFormedId(map[i][2])
          \/ map[i][1] = "method" /\ map[i][2].t = "str"
          \/ map[i][1] = "params"

ParamsShapes == {"null", "arr", "obj"}

ParamsValid(map) == \A i \in At("params", map) : map[i][2].t \in ParamsShapes

\* C15: an object with a valid jsonrpc and method decodes to a Request exactly
\* when it has an id (one that is not absent: a null id counts as absent) and to
\* a Notification exactly when it has none; a decoded Notification carries no
\* identifier and a decoded Request carries the one of the document.
C15_RequestIffId ==
    RequestDoc =>
        LET map == wire.v.entries
        IN  /\ (RequestFieldsValid(map) /\ ParamsValid(map)) => res.v.ok
            /\ res.v.ok =>
                  /\ res.v.val.kind = "Request" <=> ~NoId(map)
                  /\ res.v.val.kind = "Notification" <=> NoId(map)
                  /\ res.v.val.kind = "Notification" => "id" \notin DOMAIN res.v.val
                  /\ res.v.val.kind = "Request" =>
                        /\ res.v.val.id # Id_Null
                        /\ Id_serialize(res.v.val.id) = Field("id", map)

C15_Witness ==
    /\ Done("Request")
    /\ wire.v = JObj(<<<<"jsonrpc", JStr("2.0")>>, <<"id", JInt(1)>>, <<"method", JStr("m")>>>>)
    /\ res.v.ok /\ res.v.val.kind = "Request" /\ res.v.val.id = Id_Num(1)

NoDuplicate(map) == \A i, j \in 1..Len(map) : map[i][1] = map[j][1] => i = j

NotNullOptional(entry) == ~(entry[1] \in {"id", "params"} /\ entry[2] = JNull)

\* the Parameters a params value stands for
ParamsOf(v) ==
    CASE v.t = "arr" -> Some(Parameters_Array(v.items))
      [] v.t = "obj" -> Some(Parameters_Object(v.entries))
      [] OTHER -> None

\* C16: in a Request/Notification object a null params is decoded as an absent
\* one (no params, no error) and a null id as an absent one; an array or object
\* params gives the positional or named Parameters with the same content; any
\* other type of params fails with a field error naming params.
C16_NullIsAbsent ==
    RequestDoc =>
        LET map == wire.v.entries
        IN  /\ (RequestFieldsValid(map) /\ ParamsValid(map)) =>
                  /\ res.v.ok
                  /\ res.v.val.params =
                        IF Has("params", map) THEN ParamsOf(Field("params", map)) ELSE None
                  /\ NoId(map) => res.v.val.kind = "Notification"
            /\ (RequestFieldsValid(map) /\ ~ParamsValid(map)) =>
                  ~res.v.ok /\ res.v.err[1] = "field" /\ res.v.err[2] = "params"
            /\ NoDuplicate(map) =>
                  res.v = Request_deserialize(JObj(SelectSeq(map, NotNullOptional)))

C16_Witness ==
    /\ Done("Request")
    /\ wire.v = JObj(<<<<"jsonrpc", JStr("2.0")>>, <<"method", JStr("m")>>, <<"params", JNull>>>>)
    /\ res.v = Ok(Notification_new("m", None))

\* a document every field of which the Request decoder accepts
IsRequestDoc(v) == v.t = "obj" /\ RequestFieldsValid(v.entries) /\ ParamsValid(v.entries)

\* a document every field of which the Response decoder accepts, with one
\* payload, and an id where the payload is a result
IsResponseDoc(v) ==
    /\ v.t = "obj" /\ ResponseFieldsValid(v.entries)
    /\ Has("result", v.entries) # Has("error", v.entries)
    /\ Has("result", v.entries) => ~NoId(v.entries)

MessageDoc == Done("Message") /\ wire.v.t = "obj"

\* C17: an object decoded as a Message is classified by trial, request side
\* first (Request, Notification), then Response: the result is the first kind
\* whose decoder succeeds; if none does, the error is the single generic
\* "neither a Request nor a Response" one, with nothing of the attempts' own
\* diagnostics in it.
C17_OrderedTrial ==
    MessageDoc =>
        /\ IsRequestDoc(wire.v) =>
              /\ res.v.ok
              /\ res.v.val.t = IF NoId(wire.v.entries) THEN "Notification" ELSE "Request"
        /\ IsResponseDoc(wire.v) => res.v.ok /\ res.v.val.t = "Response"
        /\ Request_deserialize(wire.v).ok =>
              res.v.ok /\ Ok(res.v.val.value) = Request_deserialize(wire.v)
        /\ (~Request_deserialize(wire.v).ok /\ Response_deserialize(wire.v).ok) =>
              res.v.ok /\ Ok(res.v.val.value) = Response_deserialize(wire.v)
        /\ ~res.v.ok => res.v.err = <<"object is neither a Request nor a Response">>

C17_Witness ==
    /\ MessageDoc
    /\ wire.v = JObj(<<<<"jsonrpc", JStr("2.0")>>, <<"method", JStr("m")>>, <<"bogus", JInt(1)>>>>)
    /\ res.v = Err(<<"object is neither a Request nor a Response">>)

\* a request-side element has a method and no payload; a response element has a
\* payload and no method
RequestShaped(v) ==
    /\ v.t = "obj" /\ Has("method", v.entries)
    /\ ~Has("result", v.entries) /\ ~Has("error", v.entries)

ResponseShaped(v) ==
    /\ v.t = "obj" /\ ~Has("method", v.entries)
    /\ Has("result", v.entries) \/ Has("error", v.entries)

MessageBatch == Done("Message") /\ wire.v.t = "arr"

\* C18: an array decoded as a Message succeeds only if every element is of the
\* kind (request side or response) of the first; an array of acceptable elements
\* in which a request comes first and a response later, or the reverse, is
\* rejected as a whole.
C18_HomogeneousBatch ==
    MessageBatch =>
        LET seq == wire.v.items
        IN  /\ res.v.ok =>
                  /\ seq # <<>>
                  /\ Len(res.v.val.items) = Len(seq)
                  /\ \/ res.v.val.t = "BatchRequest" /\ \A i \in 1..Len(seq) : RequestShaped(seq[i])
                     \/ res.v.val.t = "BatchResponse" /\ \A i \in 1..Len(seq) : ResponseShaped(seq[i])
            /\ (\A i \in 1..Len(seq) : IsRequestDoc(seq[i]) \/ IsResponseDoc(seq[i])) =>
                  (res.v.ok <=>
                      /\ seq # <<>>
                      /\ \A i \in 1..Len(seq) : IsRequestDoc(seq[i]) <=> IsRequestDoc(seq[1]))

C18_Witness ==
    /\ MessageBatch
    /\ wire.v.items =
          <<JObj(<<<<"jsonrpc", JStr("2.0")>>, <<"id", JInt(1)>>, <<"method", JStr("a")>>>>),
            JObj(<<<<"jsonrpc", JStr("2.0")>>, <<"id", JInt(2)>>, <<"result", JInt(1)>>>>)>>
    /\ ~res.v.ok

\* an element no decoder accepts
Malformed(v) == ~Request_deserialize(v).ok /\ ~Response_deserialize(v).ok

BatchDoc == (Done("Message") \/ Done("BatchRequest") \/ Done("BatchResponse")) /\ wire.v.t = "arr"

ErrorDocWithData ==
    /\ Done("Error") /\ WellFormedError(wire.v) /\ Has("data", wire.v.entries)

ErrorDoc == Done("Error") /\ wire.v.t = "obj"

\* an entry the Error decoder takes
ErrorEntryValid(entry) ==
    \/ entry[1] = "code" /\ entry[2].t = "int" /\ ReservedCode(entry[2].n)
    \/ entry[1] = "message" /\ entry[2].t = "str"
    \/ entry[1] = "data"

\* the first entry of the document that the decoder does not take, or 0
FirstInvalid(map) ==
    IF \A i \in 1..Len(map) : ErrorEntryValid(map[i]) THEN 0
    ELSE First({i \in 1..Len(map) : ~ErrorEntryValid(map[i])})

\* the code and message checks of C21, with the integers that give the
\* invalid-error-code reason as a parameter
ErrorFields(InvalidCodes) ==
    ErrorDoc =>
        LET map == wire.v.entries
            i == FirstInvalid(map)
        IN  /\ res.v.ok => Has("code", map) /\ Has("message", map)
            /\ (i = 0 /\ Has("code", map) /\ Has("message", map)) =>
                  /\ res.v.ok
                  /\ ErrorCode_as_i64(res.v.val.code) = Field("code", map).n
                  /\ res.v.val.message = Field("message", map).s
                  /\ ~Has("data", map) => res.v.val.data = None
            /\ (i > 0 /\ map[i][1] = "code" /\ map[i][2].t = "int" /\ map[i][2].n \in InvalidCodes) =>
                  res.v = Err(<<"field", "code", "contains an",
                                "invalid error code: must be predefined or in range -32099 to -32000">>)
            /\ (i > 0 /\ map[i][1] = "code" /\ map[i][2].t # "int") =>
                  /\ ~res.v.ok
                  /\ SubSeq(res.v.err, 1, 4) = <<"field", "code", "contains an", "invalid type">>
            /\ (i > 0 /\ map[i][1] = "message") =>
                  /\ ~res.v.ok
                  /\ SubSeq(res.v.err, 1, 4) = <<"field", "message", "contains an", "invalid type">>

DefaultMessage(class) ==
    CASE class = "ParseError" -> "Parse error"
      [] class = "InvalidRequest" -> "Invalid Request"
      [] class = "MethodNotFound" -> "Method not found"
      [] class = "InvalidParams" -> "Invalid params"
      [] class = "InternalError" -> "Internal error"
      [] class = "ServerError" -> "Server error"

\* C22: Error::new_default(code) takes the message from the fixed table of the
\* code's class, every ServerError(n) giving "Server error" whatever n is, keeps
\* the code and, as Error::new does, leaves the data absent.
C22_DefaultMessages ==
    Done("Error::new_default") =>
        /\ res.v.code = arg.v
        /\ res.v.message = DefaultMessage(arg.v.t)
        /\ res.v.data = None
        /\ \A m \in Messages : Error_new(arg.v, m) = [code |-> arg.v, message |-> m, data |-> None]

C22_Witness ==
    /\ Done("Error::new_default") /\ arg.v = InvalidRequest
    /\ res.v = [code |-> InvalidRequest, message |-> "Invalid Request", data |-> None]

\* C23: with_data(value) makes the data the value given, whatever data was
\* attached before (after any number of calls it is the last value), and leaves
\* code and message as they were.
C23_WithDataReplaces ==
    Done("Error::with_data") =>
        /\ res.v.data = Some(ErrorData_new(wire.v))
        /\ res.v.code = arg.v.code
        /\ res.v.message = arg.v.message

C23_Witness ==
    /\ Done("Error::with_data")
    /\ arg.v.data = Some(ErrorData_new(JStr("s")))
    /\ wire.v = JNull
    /\ res.v.data = Some(ErrorData_new(JNull))

Keys(map) == {map[i][1] : i \in 1..Len(map)}

\* a value of kind c has been encoded: wire is its encoding
Encoded(c) == pc # "call" /\ call = c /\ arg.some

\* the fields of an encoded Error: code, message, and data exactly when present
ErrorFieldsApplicable(error, doc) ==
    /\ doc.t = "obj" /\ NoDuplicate(doc.entries)
    /\ Keys(doc.entries) = {"code", "message"} \cup (IF error.data.some THEN {"data"} ELSE {})
    /\ error.data.some => Field("data", doc.entries) = error.data.v.value

\* C24: the encoder writes the fields that apply and no other: a Notification
\* has jsonrpc "2.0" and method and no id, a Request has id as well (null for the
\* Null id), a Response has jsonrpc, id and one of result / error; an absent
\* params or an absent error data is left out, never written as null.
C24_FieldsApplicable ==
    /\ Encoded("Notification") =>
          /\ wire.v.t = "obj" /\ NoDuplicate(wire.v.entries)
          /\ Keys(wire.v.entries) =
                {"jsonrpc", "method"} \cup (IF arg.v.params.some THEN {"params"} ELSE {})
          /\ Field("jsonrpc", wire.v.entries) = JStr("2.0")
          /\ Field("method", wire.v.entries) = JStr(arg.v.method)
    /\ Encoded("Request") =>
          /\ wire.v.t = "obj" /\ NoDuplicate(wire.v.entries)
          /\ Keys(wire.v.entries) =
                {"jsonrpc", "id", "method"} \cup (IF arg.v.params.some THEN {"params"} ELSE {})
          /\ Field("jsonrpc", wire.v.entries) = JStr("2.0")
          /\ arg.v.id = Id_Null => Field("id", wire.v.entries) = JNull
          /\ arg.v.id # Id_Null => Field("id", wire.v.entries) # JNull
    /\ Encoded("Response") =>
          /\ wire.v.t = "obj" /\ NoDuplicate(wire.v.entries)
          /\ Keys(wire.v.entries) =
                {"jsonrpc", "id"} \cup (IF arg.v.result.ok THEN {"result"} ELSE {"error"})
          /\ Field("jsonrpc", wire.v.entries) = JStr("2.0")
          /\ ~arg.v.result.ok =>
                ErrorFieldsApplicable(arg.v.result.err, Field("error", wire.v.entries))
    /\ Encoded("Error") => ErrorFieldsApplicable(arg.v, wire.v)

C24_Witness ==
    /\ Encoded("Notification") /\ arg.v = Notification_new("m", None)
    /\ wire.v = JObj(<<<<"jsonrpc", JStr("2.0")>>, <<"method", JStr("m")>>>>)

\* a well-formed JSON value
RECURSIVE IsJson(_)
IsJson(v) ==
    /\ "t" \in DOMAIN v
    /\ v.t \in {"null", "bool", "int", "float", "str", "arr", "obj"}
    /\ v.t = "arr" => \A i \in 1..Len(v.items) : IsJson(v.items[i])
    /\ v.t = "obj" => \A i \in 1..Len(v.entries) : Len(v.entries[i]) = 2 /\ IsJson(v.entries[i][2])

EncoderCalls == {"Id", "Error", "Notification", "Request", "Response", "Message"}

\* C25: encoding is total: every Id, Parameters, Error, Notification, Request,
\* Response and Message value handed to the encoder is encoded, and what comes
\* out is a JSON value, never an error.
C25_EncodingTotal ==
    \A c \in EncoderCalls :
        /\ (pc = "call" /\ call = c) => ENABLED Next
        /\ Encoded(c) => wire.some /\ IsJson(wire.v)

C25_Witness ==
    /\ Encoded("Message") /\ arg.v.t = "Request" /\ arg.v.value.id = Id_Num(2 ^ IntBits - 1)
    /\ arg.v.value.params = Some(Parameters_Object(<<<<"k", JBool(TRUE)>>>>))
    /\ IsJson(wire.v)

\* C26: decoding the identifier 2^64 fails with the overflow error
\* "number too large", not with a type mismatch.
C26_TwoPow64TooLarge ==
    (Done("Id::from_str") /\ arg.v = U64_MAX + 1)
        => res.v = Err(custom(MSG_NUMBER_TOO_LARGE))
\* an identifier value the id field check lets through
IdTaken(v) == v.t \in {"null", "str"} \/ (v.t = "int" /\ v.n <= I64_MAX)

\* an entry that passes the check made when the decoder of c reads it
EntryTaken(c, entry) ==
    LET key == entry[1]
        val == entry[2]
    IN  CASE c = "Error" -> ErrorEntryValid(entry)
          [] c = "Response" ->
                \/ key = "jsonrpc" /\ val.t = "str"
                \/ key = "id" /\ IdTaken(val)
                \/ key = "result"
                \/ key = "error" /\ WellFormedError(val)
          [] OTHER ->
                \/ key = "jsonrpc" /\ val.t = "str"
                \/ key = "id" /\ IdTaken(val)
                \/ key = "method" /\ val.t = "str"
                \/ key = "params" /\ val.t \in ParamsShapes

\* the entries of the document that do not pass
NotTaken(c, map) == {i \in 1..Len(map) : ~EntryTaken(c, map[i])}

\* the error names the entry: as unknown, or as a field with a bad value
EntryError(c, entry, err) ==
    /\ err[1] = (IF entry[1] \in FieldTable(c) THEN "field" ELSE "unknown field")
    /\ err[2] = entry[1]

PayloadErrors == {custom(MSG_BOTH_PRESENT), custom(MSG_ID_REQUIRED), custom(MSG_NO_PAYLOAD)}

\* the checks that follow the loop, in their order
AfterEntries(c, map, r) ==
    IF c = "Error"
    THEN CASE ~Has("code", map) -> r = Err(missing_field("code"))
           [] Has("code", map) /\ ~Has("message", map) -> r = Err(missing_field("message"))
           [] OTHER -> r.ok
    ELSE CASE ~Has("jsonrpc", map) -> r = Err(missing_field("jsonrpc"))
           [] Has("jsonrpc", map) /\ Field("jsonrpc", map) # JStr("2.0") ->
                 /\ ~r.ok
                 /\ r.err[1] = "invalid value for field" /\ r.err[2] = "jsonrpc"
           [] OTHER ->
                 IF c = "Response" THEN r.ok \/ (~r.ok /\ r.err \in PayloadErrors)
                 ELSE IF Has("method", map) THEN r.ok ELSE r = Err(missing_field("method"))

\* C27: the entries of an object are checked in document order and the first
\* one that is unknown or has a bad type or range ends the decode with its own
\* error; only when every entry passed are missing fields reported (code before
\* message for an Error, the jsonrpc presence and version before the method or
\* the payload), and the result/error payload errors come last.
C27_ValidationOrder ==
    \A c \in ObjectCalls :
        (Done(c) /\ wire.v.t = "obj") =>
            LET map == wire.v.entries
                bad == NotTaken(c, map)
            IN  IF bad # {}
                THEN ~res.v.ok /\ EntryError(c, map[First(bad)], res.v.err)
                ELSE AfterEntries(c, map, res.v)

\* an object with an unknown field and without a required one: the unknown
\* field is the one reported
C27_Witness ==
    /\ Done("Error") /\ wire.v.t = "obj"
    /\ ~Has("code", wire.v.entries)
    /\ Has("message", wire.v.entries)
    /\ \E i \in 1..Len(wire.v.entries) : wire.v.entries[i][1] \notin FieldTable("Error")
    /\ ~res.v.ok /\ res.v.err[1] = "unknown field"
C29_EmptyBatchPolicy ==
    MessageBatch =>
        /\ wire.v.items = <<>> => res.v = Err(<<"empty array">>)
        /\ res.v.ok => res.v.val.items # <<>>
        /\ (wire.v.items # <<>> /\ Malformed(wire.v.items[1])) =>
              res.v = Err(<<"invalid batch element type">>)

C29_Witness ==
    /\ MessageBatch
    /\ wire.v.items = <<>>
    /\ res.v = Err(<<"empty array">>)
\* the decoding of one element of a batch of the given kind
ElementDecoded(kind, v) ==
    IF kind = "BatchRequest" THEN Request_deserialize(v) ELSE Response_deserialize(v)

\* C30: a decoded batch keeps the array: as many messages as elements, in the
\* same order, the i-th message being the decoding of the i-th element (it has
\* that element's method, or that element's kind of payload); the first
\* element is neither dropped nor repeated.
C30_BatchPreserved ==
    (BatchDoc /\ res.v.ok) =>
        LET seq == wire.v.items
            items == res.v.val.items
        IN  /\ Len(items) = Len(seq)
            /\ \A i \in 1..Len(seq) :
                  /\ Ok(items[i]) = ElementDecoded(res.v.val.t, seq[i])
                  /\ res.v.val.t = "BatchRequest" =>
                        items[i].method = Field("method", seq[i].entries).s
                  /\ res.v.val.t = "BatchResponse" =>
                        (items[i].result.ok <=> Has("result", seq[i].entries))

C30_Witness ==
    /\ MessageBatch /\ res.v.ok /\ res.v.val.t = "BatchRequest"
    /\ Len(wire.v.items) = 3
    /\ Len(res.v.val.items) = 3
    /\ res.v.val.items[1].method = "b"
    /\ res.v.val.items[2].method = "a"
    /\ res.v.val.items[3].method = "n"
====
